---- MODULE Spec2Model ----
(***************************************************************************)
(* HiDPI.js (src/hidpi.js) and its scroll-visibility registry              *)
(* ZG_Waypoints (src/lib/zg.waypoints.js) as a state machine.              *)
(*                                                                         *)
(* One action is one browser event: the handler that runs to completion    *)
(* on the single UI thread.  Lengths are in abstract pixels; the fraction  *)
(* viewMargin is carried in tenths, so "x >= viewTop + height * margin"    *)
(* is compared after multiplying both sides by 10.                         *)
(***************************************************************************)
EXTENDS Integers, Sequences, FiniteSets, TLC

\* ------------------------------------------------------------ constants
PRELOAD_SCHEME == "lazy"
HIDPI_BREAKPOINT == 1024
DEBOUNCE_TIMEOUT == 500
\* the step in which time advances
TickMs == DEBOUNCE_TIMEOUT \div 2

\* --------------------------------------------------------------- bounds
\* calls of one region's callback after which no further scroll is explored
MaxCalls == 2
\* regions a client of the library registers through ZG_Waypoints.add
MaxAdds == 2
\* largest edge coordinate inView is evaluated on
MaxCoord == 42

\* ------------------------------------------------------------- universe
\* the tagged elements of the page, in document order
ElementSeq == <<"img1", "div1">>
Elements == {ElementSeq[k] : k \in 1..Len(ElementSeq)}
TagName(e) == IF e = "img1" THEN "IMG" ELSE "DIV"

LifecycleClasses ==
    {"hidpi-ready", "hidpi-pending", "hidpi-loading", "hidpi-loaded", "hidpi-error"}

\* element boxes: offset().top, height() and width()
Geoms ==
    { [top |-> 2, height |-> 4, width |-> HIDPI_BREAKPOINT + 1],
      [top |-> 12, height |-> 4, width |-> HIDPI_BREAKPOINT + 1],
      [top |-> 0, height |-> 30, width |-> HIDPI_BREAKPOINT + 1],
      [top |-> 12, height |-> 4, width |-> HIDPI_BREAKPOINT] }
WinHeights == {10, 20}
ScrollTops == {0, 10, 20}
\* region edges a client passes to ZG_Waypoints.add
ClientSpans == { <<2, 6>>, <<12, 16>>, <<0, 30>> }
\* the optional third argument of inView: <<>> when omitted, else <<tenths>>
Omitted == <<>>
\* arguments a client passes to ZG_Waypoints.inView
ProbeSpans == { <<0, 0>>, <<1, 1>>, <<2, 6>>, <<9, 10>>, <<12, 16>>, <<0, 30>> }
Margins == { Omitted, <<0>>, <<1>>, <<2>> }

VARIABLES
    classes,      \* element -> set of CSS class names on it
    geom,         \* element -> its current box
    srcAttr,      \* element -> whether data-hidpi-src is still on it
    overlay,      \* element -> "none" | "fading" | "removed"
    loader,       \* element -> number of Image loaders whose event is yet to fire
    fetched,      \* element -> "none" | "load" | "error": the last loader event handled
    preloads,     \* element -> number of preloadHiDPIImage calls made for it
    waypoints,    \* ZG_Waypoints.waypoints
    scrollSubs,   \* number of bindings of ZG_Waypoints.update to window scroll
    calls,        \* region id -> number of times its callback was applied
    scrollTop,    \* $(window).scrollTop()
    winHeight,    \* $(window).height()
    readyTimer,   \* "unset" | "running" | "cleared"
    refreshTimer, \* "unset" | "armed" | "fired"
    lastEvent,    \* the event whose handler produced this state
    updateRuns,   \* update() passes run by the handler that produced this state
    passes,       \* per update() pass of that handler: the regions it examined, in
                  \* order, as <<id, hit>> records
    probe,        \* <<>>, or the arguments and result of a client's inView call
    timeouts,     \* ms left on each pending setTimeout( checkForHiDPIElements, ... )
    sinceResize,  \* ms since the last resize event, counted up to DEBOUNCE_TIMEOUT
    burst         \* resize events in the current burst: 0 (none yet), 1 or 2 (2 or more)

vars == <<classes, geom, srcAttr, overlay, loader, fetched, preloads, waypoints,
          scrollSubs, calls, scrollTop, winHeight, readyTimer, refreshTimer,
          lastEvent, updateRuns, passes, probe, timeouts, sinceResize, burst>>

\* The part of the state the library and controller functions thread through.
Heap == [classes |-> classes, loader |-> loader, preloads |-> preloads,
         waypoints |-> waypoints, scrollSubs |-> scrollSubs, calls |-> calls,
         passes |-> <<>>]

\* ------------------------------------------------------- ZG_Waypoints.inView
Falsy(viewMargin) == viewMargin = Omitted \/ viewMargin[1] = 0

\* tenths of the window height used as margin: viewMargin || 0.1
MarginTenths(viewMargin) == IF Falsy(viewMargin) THEN 1 ELSE viewMargin[1]

EdgeInView(edge, viewMargin, viewTop, height) ==
    /\ 10 * edge >= 10 * viewTop + height * MarginTenths(viewMargin)
    /\ 10 * edge <= 10 * (viewTop + height) - height * MarginTenths(viewMargin)

\* an overlap test: true as well for a span that covers the whole viewport
inViewOverlap(elementTop, elementBottom, viewMargin, viewTop, height) ==
    /\ 10 * elementTop <= 10 * (viewTop + height) - height * MarginTenths(viewMargin)
    /\ 10 * elementBottom >= 10 * viewTop + height * MarginTenths(viewMargin)

inView(elementTop, elementBottom, viewMargin, viewTop, height) ==
    EdgeInView(elementTop, viewMargin, viewTop, height)
        \/ EdgeInView(elementBottom, viewMargin, viewTop, height)

\* ---------------------------------------------------------- ZG_Waypoints.add
\* jQuery's .on() appends a binding on every call, also for a function that is
\* already bound.
add(st, top, bottom, callback, oneShot, arg) ==
    [st EXCEPT
        !.waypoints = Append(@, [id |-> Len(st.calls) + 1, top |-> top,
                                 bottom |-> bottom, callback |-> callback,
                                 oneShot |-> oneShot, arg |-> arg]),
        !.calls = Append(@, 0),
        !.scrollSubs = @ + 1]

\* ------------------------------------------------------- preloadHiDPIImage
\* the pending marker is left on the element
preloadKeepsPending(st, item) ==
    [st EXCEPT
        !.classes[item] = @ \cup {"hidpi-loading"},
        !.loader[item] = @ + 1,
        !.preloads[item] = @ + 1]

preloadHiDPIImage(st, item) ==
    [st EXCEPT
        !.classes[item] = (@ \ {"hidpi-queued", "hidpi-pending"}) \cup {"hidpi-loading"},
        !.loader[item] = @ + 1,
        !.preloads[item] = @ + 1]

\* waypoint.callback.apply( waypoint, waypoint.callbackArgs )
Apply(st, waypoint) ==
    LET counted == [st EXCEPT !.calls[waypoint.id] = @ + 1]
    IN  IF waypoint.callback = "preloadHiDPIImage"
        THEN preloadHiDPIImage(counted, waypoint.arg)
        ELSE counted

\* ------------------------------------------------------- ZG_Waypoints.update
\* Array.prototype.splice( i, 1 ) with i counted from 1
Splice(s, i) == SubSeq(s, 1, i - 1) \o SubSeq(s, i + 1, Len(s))

\* the fired region is left in the list
KeepAll(s, i) == s

RemoveFired(s, i) == Splice(s, i)

\* the body of the while loop for the region at index i, hit being the result
\* of the inView test
LoopBody(st, i, hit) ==
    LET waypoint == st.waypoints[i]
        seen == [st EXCEPT !.passes[Len(st.passes)] =
                    Append(@, [id |-> waypoint.id, hit |-> hit])]
        fired == IF hit /\ waypoint.callback # "none"
                 THEN Apply(seen, waypoint) ELSE seen
    IN  IF hit /\ waypoint.oneShot
        THEN [fired EXCEPT !.waypoints = RemoveFired(@, i)]
        ELSE fired

\* the pass tests the box the bound element has now, not the registered edges
RECURSIVE UpdateFromLive(_, _, _, _)
UpdateFromLive(st, i, viewTop, height) ==
    IF i = 0 THEN st
    ELSE LET waypoint == st.waypoints[i]
             top == IF waypoint.arg \in Elements THEN geom[waypoint.arg].top
                    ELSE waypoint.top
             bottom == IF waypoint.arg \in Elements
                       THEN top + geom[waypoint.arg].height ELSE waypoint.bottom
         IN  UpdateFromLive(LoopBody(st, i, inView(top, bottom, Omitted, viewTop, height)),
                            i - 1, viewTop, height)

\* a pass that walks the list from its first index upwards; with skip, the
\* index is advanced also after a removal, so the region that moved into the
\* freed slot is not examined
RECURSIVE ForwardFrom(_, _, _, _, _)
ForwardFrom(st, k, skip, viewTop, height) ==
    IF k > Len(st.waypoints) THEN st
    ELSE LET waypoint == st.waypoints[k]
             after == LoopBody(st, k, inView(waypoint.top, waypoint.bottom, Omitted,
                                             viewTop, height))
             removed == Len(after.waypoints) < Len(st.waypoints)
         IN  ForwardFrom(after, IF removed /\ ~skip THEN k ELSE k + 1, skip,
                         viewTop, height)

UpdateForward(st, i, viewTop, height) == ForwardFrom(st, 1, FALSE, viewTop, height)

UpdateForwardSkip(st, i, viewTop, height) == ForwardFrom(st, 1, TRUE, viewTop, height)

\* var i = waypoints.length; while ( i-- ){ ... }
RECURSIVE UpdateFrom(_, _, _, _)
UpdateFrom(st, i, viewTop, height) ==
    IF i = 0 THEN st
    ELSE LET waypoint == st.waypoints[i]
         IN  UpdateFrom(LoopBody(st, i, inView(waypoint.top, waypoint.bottom, Omitted,
                                               viewTop, height)),
                        i - 1, viewTop, height)

\* the listener is never removed
NeverUnsubscribe(st) == st

\* the listener is removed after every pass
UnsubscribeAlways(st) == [st EXCEPT !.scrollSubs = 0]

\* jQuery's .off( "scroll", fn ) removes every binding of fn.
Unsubscribe(st) ==
    IF Len(st.waypoints) = 0 THEN [st EXCEPT !.scrollSubs = 0] ELSE st

update(st, viewTop, height) ==
    LET started == [st EXCEPT !.passes = Append(@, <<>>)]
    IN  Unsubscribe(UpdateFrom(started, Len(st.waypoints), viewTop, height))

\* One scroll event: jQuery calls the handlers that were bound when the event
\* was dispatched, so update runs once per binding.
RECURSIVE Dispatch(_, _, _, _)
Dispatch(st, n, viewTop, height) ==
    IF n = 0 THEN st
    ELSE Dispatch(update(st, viewTop, height), n - 1, viewTop, height)

\* --------------------------------------------------- checkForHiDPIElements
\* selects on something other than the ready marker
NotLoadedSelector(cls) == "hidpi-loaded" \notin cls

\* $( ".hidpi-ready" )
ReadySelector(cls) == "hidpi-ready" \in cls

\* the ready marker is left on the element
KeepReady(cls) == cls

\* .removeClass( "hidpi-ready" )
StripReady(cls) == cls \ {"hidpi-ready"}

\* the breakpoint width itself passes the filter
AtBreakpoint(width) == width >= HIDPI_BREAKPOINT

\* .filter( function(){ return $( this ).width() > HIDPI_BREAKPOINT; } )
BeyondBreakpoint(width) == width > HIDPI_BREAKPOINT

\* $( ".hidpi-ready" ).filter( width > HIDPI_BREAKPOINT )
Matched(st, g, e) == ReadySelector(st.classes[e]) /\ BeyondBreakpoint(g[e].width)

\* the body of .each() for one item
EachItem(st, g, item, viewTop, height) ==
    LET top == g[item].top
        bottom == top + g[item].height
    IN  IF "immediate" = PRELOAD_SCHEME \/ inView(top, bottom, Omitted, viewTop, height)
        THEN preloadHiDPIImage(st, item)
        ELSE IF "queued" = PRELOAD_SCHEME
             THEN st
             ELSE add([st EXCEPT !.classes[item] = @ \cup {"hidpi-pending"}],
                      top, bottom, "preloadHiDPIImage", TRUE, item)

RECURSIVE EachFrom(_, _, _, _, _, _)
EachFrom(st, g, sel, k, viewTop, height) ==
    IF k > Len(ElementSeq) THEN st
    ELSE LET item == ElementSeq[k]
         IN  EachFrom(IF item \in sel THEN EachItem(st, g, item, viewTop, height) ELSE st,
                      g, sel, k + 1, viewTop, height)

checkForHiDPIElements(st, g, viewTop, height) ==
    LET sel == {e \in Elements : Matched(st, g, e)}
        stripped == [st EXCEPT !.classes =
                        [e \in Elements |-> IF e \in sel THEN StripReady(@[e]) ELSE @[e]]]
    IN  EachFrom(stripped, g, sel, 1, viewTop, height)

\* ------------------------------------------------------------------ state
Init ==
    /\ classes = [e \in Elements |-> {"hidpi-ready"}]
    /\ geom \in [Elements -> Geoms]
    /\ srcAttr = [e \in Elements |-> TRUE]
    /\ overlay = [e \in Elements |-> "none"]
    /\ loader = [e \in Elements |-> 0]
    /\ fetched = [e \in Elements |-> "none"]
    /\ preloads = [e \in Elements |-> 0]
    /\ waypoints = <<>>
    /\ scrollSubs = 0
    /\ calls = <<>>
    /\ scrollTop = 0
    /\ winHeight \in WinHeights
    /\ readyTimer = "unset"
    /\ refreshTimer = "unset"
    /\ lastEvent = "init"
    /\ updateRuns = 0
    /\ passes = <<>>
    /\ probe = <<>>
    /\ timeouts = {}
    /\ sinceResize = DEBOUNCE_TIMEOUT
    /\ burst = 0

\* write a threaded heap back to the variables
Commit(st) ==
    /\ classes' = st.classes
    /\ loader' = st.loader
    /\ preloads' = st.preloads
    /\ waypoints' = st.waypoints
    /\ scrollSubs' = st.scrollSubs
    /\ calls' = st.calls
    /\ passes' = st.passes
    /\ probe' = <<>>

\* fields no library or controller function writes
ElementSame == UNCHANGED <<geom, srcAttr, overlay, fetched>>
WindowSame == UNCHANGED <<scrollTop, winHeight>>
DebounceSame == UNCHANGED <<refreshTimer, timeouts, sinceResize, burst>>
TimersSame == UNCHANGED readyTimer /\ DebounceSame

\* ------------------------------------------------------ hidpi.js, top level
\* the script body: start the poll, scan once, register the two handlers
ScriptLoad ==
    /\ readyTimer = "unset"
    /\ readyTimer' = "running"
    /\ Commit(checkForHiDPIElements(Heap, geom, scrollTop, winHeight))
    /\ lastEvent' = "load"
    /\ updateRuns' = 0
    /\ ElementSame /\ WindowSame /\ DebounceSame

\* setInterval( checkForHiDPIElements, DOMCHECK_INTERVAL )
Poll ==
    /\ readyTimer = "running"
    /\ Commit(checkForHiDPIElements(Heap, geom, scrollTop, winHeight))
    /\ lastEvent' = "poll"
    /\ updateRuns' = 0
    /\ ElementSame /\ WindowSame /\ TimersSame

\* the poll is left running
KeepInterval(timer) == timer

\* clearInterval( readyTimer )
ClearInterval(timer) == "cleared"

\* $( function(){ clearInterval( readyTimer ); checkForHiDPIElements(); } )
DomReady ==
    /\ readyTimer = "running"
    /\ readyTimer' = ClearInterval(readyTimer)
    /\ Commit(checkForHiDPIElements(Heap, geom, scrollTop, winHeight))
    /\ lastEvent' = "ready"
    /\ updateRuns' = 0
    /\ ElementSame /\ WindowSame /\ DebounceSame

\* the pending timer is not cancelled
KeepTimeout(ts) == ts

\* refreshTimer && clearTimeout( refreshTimer ): refreshTimer names the timer
\* set last, the one with the most time left
ClearTimeout(ts) == {t \in ts : \E u \in ts : u > t}

\* the window resize handler: only (re)arms the debounce timer
Resize(h) ==
    /\ readyTimer # "unset"
    /\ h # winHeight
    /\ winHeight' = h
    /\ refreshTimer' = "armed"
    /\ timeouts' = ClearTimeout(timeouts) \cup {DEBOUNCE_TIMEOUT}
    /\ sinceResize' = 0
    /\ burst' = IF sinceResize < DEBOUNCE_TIMEOUT THEN 2 ELSE 1
    /\ lastEvent' = "resize"
    /\ updateRuns' = 0
    /\ Commit(Heap)
    /\ ElementSame /\ UNCHANGED <<scrollTop, readyTimer>>

\* setTimeout( checkForHiDPIElements, DEBOUNCE_TIMEOUT ) expires
ResizeTimeout ==
    /\ 0 \in timeouts
    /\ timeouts' = timeouts \ {0}
    /\ refreshTimer' = "fired"
    /\ UNCHANGED <<sinceResize, burst>>
    /\ Commit(checkForHiDPIElements(Heap, geom, scrollTop, winHeight))
    /\ lastEvent' = "debounce"
    /\ updateRuns' = 0
    /\ ElementSame /\ WindowSame /\ UNCHANGED readyTimer

\* time passes; a timer that is due fires before more time passes
Tick ==
    /\ timeouts # {} \/ sinceResize < DEBOUNCE_TIMEOUT
    /\ \A t \in timeouts : t >= TickMs
    /\ timeouts' = {t - TickMs : t \in timeouts}
    /\ sinceResize' = IF sinceResize + TickMs > DEBOUNCE_TIMEOUT
                      THEN DEBOUNCE_TIMEOUT ELSE sinceResize + TickMs
    /\ lastEvent' = "tick"
    /\ updateRuns' = 0
    /\ Commit(Heap)
    /\ ElementSame /\ WindowSame /\ UNCHANGED <<readyTimer, refreshTimer, burst>>

\* ------------------------------------------------------------ window scroll
Scroll(s) ==
    /\ s # scrollTop
    /\ \A id \in 1..Len(calls) : calls[id] < MaxCalls
    /\ scrollTop' = s
    /\ Commit(Dispatch(Heap, scrollSubs, s, winHeight))
    /\ lastEvent' = "scroll"
    /\ updateRuns' = scrollSubs
    /\ ElementSame /\ TimersSame /\ UNCHANGED winHeight

\* ------------------------------------------------------ image loader events
\* hiDPILoaded: for an IMG, $parent is the jQuery method $item.parent itself
\* (it is not called), so $parent.css is undefined and the call on line 117
\* throws a TypeError before anything is changed.
\* the attribute is left on the element
hiDPILoadedKeepsAttr(item) ==
    IF "IMG" = TagName(item)
    THEN UNCHANGED <<classes, overlay, srcAttr>>
    ELSE /\ overlay' = [overlay EXCEPT ![item] = "fading"]
         /\ classes' = [classes EXCEPT ![item] =
                (@ \ {"hidpi-loading"}) \cup {"hidpi-animating", "hidpi-loaded"}]
         /\ UNCHANGED srcAttr

hiDPILoaded(item) ==
    IF "IMG" = TagName(item)
    THEN UNCHANGED <<classes, overlay, srcAttr>>
    ELSE /\ overlay' = [overlay EXCEPT ![item] = "fading"]
         /\ classes' = [classes EXCEPT ![item] =
                (@ \ {"hidpi-loading"}) \cup {"hidpi-animating", "hidpi-loaded"}]
         /\ srcAttr' = [srcAttr EXCEPT ![item] = FALSE]

ImageLoad(item) ==
    /\ loader[item] > 0
    /\ loader' = [loader EXCEPT ![item] = @ - 1]
    /\ fetched' = [fetched EXCEPT ![item] = "load"]
    /\ hiDPILoaded(item)
    /\ lastEvent' = "imgload"
    /\ updateRuns' = 0
    /\ WindowSame /\ TimersSame
    /\ passes' = <<>>
    /\ probe' = <<>>
    /\ UNCHANGED <<geom, preloads, waypoints, scrollSubs, calls>>

\* the failed element is offered to the next scan again
hiDPIErrorRetry(cls) == (cls \ {"hidpi-processing"}) \cup {"hidpi-error", "hidpi-ready"}

hiDPIError(cls) == (cls \ {"hidpi-processing"}) \cup {"hidpi-error"}

ImageError(item) ==
    /\ loader[item] > 0
    /\ loader' = [loader EXCEPT ![item] = @ - 1]
    /\ fetched' = [fetched EXCEPT ![item] = "error"]
    /\ classes' = [classes EXCEPT ![item] = hiDPIError(@)]
    /\ lastEvent' = "imgerror"
    /\ updateRuns' = 0
    /\ WindowSame /\ TimersSame
    /\ passes' = <<>>
    /\ probe' = <<>>
    /\ UNCHANGED <<geom, srcAttr, overlay, preloads, waypoints, scrollSubs, calls>>

\* fadeOut( CROSSFADE_TIME, hiDPIAnimationComplete ) finishes
hiDPIAnimationComplete(item) ==
    /\ overlay[item] = "fading"
    /\ classes' = [classes EXCEPT ![item] = @ \ {"hidpi-animating"}]
    /\ overlay' = [overlay EXCEPT ![item] = "removed"]
    /\ lastEvent' = "fade"
    /\ updateRuns' = 0
    /\ WindowSame /\ TimersSame
    /\ passes' = <<>>
    /\ probe' = <<>>
    /\ UNCHANGED <<geom, srcAttr, loader, fetched, preloads, waypoints, scrollSubs, calls>>

\* the page reflows: an element's box changes
Relayout(item, g) ==
    /\ g # geom[item]
    /\ geom' = [geom EXCEPT ![item] = g]
    /\ lastEvent' = "layout"
    /\ updateRuns' = 0
    /\ Commit(Heap)
    /\ WindowSame /\ TimersSame
    /\ UNCHANGED <<srcAttr, overlay, fetched>>

Next ==
    \/ ScriptLoad
    \/ Poll
    \/ DomReady
    \/ \E h \in WinHeights : Resize(h)
    \/ ResizeTimeout
    \/ Tick
    \/ \E s \in ScrollTops : Scroll(s)
    \/ \E e \in Elements : ImageLoad(e)
    \/ \E e \in Elements : ImageError(e)
    \/ \E e \in Elements : hiDPIAnimationComplete(e)
    \/ \E e \in Elements, g \in Geoms : Relayout(e, g)

Spec == Init /\ [][Next]_vars

\* ---------------------------------------- the library under any client
ClientAdd(span, oneShot) ==
    /\ Len(calls) < MaxAdds
    /\ Commit(add(Heap, span[1], span[2], "client", oneShot, "none"))
    /\ lastEvent' = "add"
    /\ updateRuns' = 0
    /\ ElementSame /\ WindowSame /\ TimersSame

\* a direct call of ZG_Waypoints.update()
ClientUpdate ==
    /\ \A id \in 1..Len(calls) : calls[id] < MaxCalls
    /\ Commit(update(Heap, scrollTop, winHeight))
    /\ lastEvent' = "update"
    /\ updateRuns' = 1
    /\ ElementSame /\ WindowSame /\ TimersSame

\* the window is resized; the library binds nothing to resize
WindowResize(h) ==
    /\ h # winHeight
    /\ winHeight' = h
    /\ lastEvent' = "resize"
    /\ updateRuns' = 0
    /\ Commit(Heap)
    /\ ElementSame /\ TimersSame /\ UNCHANGED scrollTop

InitLib ==
    /\ Init
    /\ geom = [e \in Elements |-> [top |-> 2, height |-> 4, width |-> HIDPI_BREAKPOINT + 1]]

NextLib ==
    \/ \E span \in ClientSpans, oneShot \in BOOLEAN : ClientAdd(span, oneShot)
    \/ ClientUpdate
    \/ \E s \in ScrollTops : Scroll(s)
    \/ \E h \in WinHeights : WindowResize(h)

SpecLib == InitLib /\ [][NextLib]_vars

\* ------------------------------------- inView called by a client directly
ClientInView(span, viewMargin) ==
    /\ probe' = [top |-> span[1], bottom |-> span[2], viewMargin |-> viewMargin,
                 result |-> inView(span[1], span[2], viewMargin, scrollTop, winHeight)]
    /\ lastEvent' = "inView"
    /\ updateRuns' = 0
    /\ passes' = <<>>
    /\ ElementSame /\ WindowSame /\ TimersSame
    /\ UNCHANGED <<classes, loader, preloads, waypoints, scrollSubs, calls>>

NextView ==
    \/ \E span \in ProbeSpans, viewMargin \in Margins : ClientInView(span, viewMargin)
    \/ \E s \in ScrollTops : Scroll(s)
    \/ \E h \in WinHeights : WindowResize(h)

SpecView == InitLib /\ [][NextView]_vars

\* ================================================================ claims
RegionIds == 1..Len(calls)
InList(id) == \E i \in 1..Len(waypoints) : waypoints[i].id = id
RegionInView(w) == inView(w.top, w.bottom, Omitted, scrollTop, winHeight)
ScanEvents == {"load", "poll", "ready", "debounce"}
Pending(e) == "hidpi-pending" \in classes[e]

\* C1: a one-shot region's callback is applied at most once in total: while the
\* region is in the list it has never been applied, once it has left the list it
\* has been applied exactly once; and when an update() pass has finished, no
\* one-shot region that is in view is left in the list.
C1_OneShotFiresOnce ==
    /\ \A i \in 1..Len(waypoints) :
          waypoints[i].oneShot => calls[waypoints[i].id] = 0
    /\ \A id \in RegionIds : ~InList(id) => calls[id] = 1
    /\ lastEvent \in {"scroll", "update"} =>
          \A i \in 1..Len(waypoints) :
              waypoints[i].oneShot => ~RegionInView(waypoints[i])

\* a scroll event that ran update() twice has fired a one-shot region, once
C1_Witness ==
    /\ lastEvent = "scroll"
    /\ updateRuns >= 2
    /\ \E id \in RegionIds : ~InList(id) /\ calls[id] = 1

\* C2: every element carries exactly one lifecycle-state class.
C2_ExactlyOneLifecycleClass ==
    \A e \in Elements : Cardinality(classes[e] \cap LifecycleClasses) = 1

\* C3: an IMG element whose high-resolution fetch has succeeded carries the
\* loaded marker instead of the loading marker, and its cloned overlay has been
\* inserted (and is removed again when the crossfade has completed).
C3_ImgLoadedAfterFetch ==
    \A e \in Elements :
        (TagName(e) = "IMG" /\ fetched[e] = "load") =>
            /\ "hidpi-loaded" \in classes[e]
            /\ "hidpi-loading" \notin classes[e]
            /\ overlay[e] \in {"fading", "removed"}

\* C4: preloadHiDPIImage is started at most once per element, whatever scans and
\* scroll events have run: never for an element that is still ready or pending,
\* exactly once for an element that has been moved on to loading.
C4_OnePreloadPerElement ==
    \A e \in Elements :
        /\ preloads[e] <= 1
        /\ preloads[e] = 0 <=> (classes[e] \cap {"hidpi-ready", "hidpi-pending"} # {})

\* the load, DOM-ready and debounced-resize scans have all run, one element
\* was started by a scan and the other by a scroll event
C4_Witness ==
    /\ readyTimer = "cleared"
    /\ refreshTimer = "fired"
    /\ \A e \in Elements : preloads[e] = 1
    /\ Len(calls) = 1
    /\ calls[1] = 1

\* C5: a scan changes nothing of an element that does not carry the ready
\* marker: its classes stay, no fetch is started and no region is registered
\* for it.
C5_ScanOnlyTouchesReady ==
    [][lastEvent' \in ScanEvents =>
        \A e \in Elements :
            "hidpi-ready" \notin classes[e] =>
                /\ classes'[e] = classes[e]
                /\ preloads'[e] = preloads[e]
                /\ loader'[e] = loader[e]
                /\ Cardinality({i \in 1..Len(waypoints') : waypoints'[i].arg = e})
                     = Cardinality({i \in 1..Len(waypoints) : waypoints[i].arg = e})]_vars

\* the poll scan has just run while one element was pending and the other's
\* fetch had already failed
C5_Witness ==
    /\ lastEvent = "poll"
    /\ \E e \in Elements : Pending(e)
    /\ \E e \in Elements : "hidpi-error" \in classes[e]

\* C6: update is bound to the scroll event exactly while the list is non-empty,
\* and a scroll event that finds the list empty applies no callback.
C6_SubscribedIffPending ==
    /\ (scrollSubs > 0) <=> (Len(waypoints) > 0)
    /\ [][((scrollSubs' > 0) <=> (Len(waypoints') > 0))
            /\ ((Len(waypoints) = 0 /\ lastEvent' = "scroll") =>
                    (updateRuns' = 0 /\ calls' = calls))]_vars

\* a scroll event has emptied the list and removed the binding
C6_Witness ==
    /\ lastEvent = "scroll"
    /\ updateRuns > 0
    /\ Len(waypoints) = 0
    /\ scrollSubs = 0

\* C7: update is bound to the scroll event once however many regions were
\* added, so one scroll event runs update() once and applies the callback of a
\* region at most once.
C7_OneCallbackPerScroll ==
    [][lastEvent' = "scroll" =>
          \A id \in RegionIds : calls'[id] <= calls[id] + 1]_vars

\* the shrunk viewport of C8, in pixels (window heights are multiples of 10)
C8_Low == scrollTop + (winHeight \div 10)
C8_High == scrollTop + winHeight - (winHeight \div 10)
C8_Within(x) == C8_Low <= x /\ x <= C8_High

\* C8: with the margin omitted, inView(top, bottom) is true exactly when top or
\* bottom lies in [viewTop + margin, viewBottom - margin], margin being a tenth
\* of the window height; it is false for a span that straddles that interval.
C8_InViewEdgeTest ==
    \A t \in 0..MaxCoord : \A b \in t..MaxCoord :
        /\ inView(t, b, Omitted, scrollTop, winHeight) <=> (C8_Within(t) \/ C8_Within(b))
        /\ (t < C8_Low /\ b > C8_High) => ~inView(t, b, Omitted, scrollTop, winHeight)

\* an update() pass has left a one-shot region that straddles the viewport
C8_Witness ==
    /\ lastEvent = "scroll"
    /\ updateRuns > 0
    /\ \E i \in 1..Len(waypoints) :
          waypoints[i].top < C8_Low /\ waypoints[i].bottom > C8_High

\* C9 as claimed: after a scroll event, a resize-triggered scan or a poll, no
\* one-shot region that is in view is left unfired in the list.
C9_FiredOnAnyEvent ==
    lastEvent \in {"scroll", "debounce", "poll"} =>
        \A i \in 1..Len(waypoints) :
            waypoints[i].oneShot => ~RegionInView(waypoints[i])

\* C9: a scroll event applies the callback of every one-shot region that is in
\* view at that event, once, removes the region and moves its pending element
\* to loading; a resize, a resize-triggered scan and a poll apply no region's
\* callback.
C9_FiredOnScroll ==
    [][/\ lastEvent' = "scroll" =>
            \A i \in 1..Len(waypoints) :
                LET w == waypoints[i]
                IN  (w.oneShot /\ inView(w.top, w.bottom, Omitted, scrollTop', winHeight')) =>
                        /\ calls'[w.id] = calls[w.id] + 1
                        /\ \A j \in 1..Len(waypoints') : waypoints'[j].id # w.id
                        /\ "hidpi-loading" \in classes'[w.arg]
                        /\ "hidpi-pending" \notin classes'[w.arg]
       /\ lastEvent' \in {"resize", "debounce", "poll"} =>
            \A id \in RegionIds : calls'[id] = calls[id]]_vars

\* a scroll event after a resize-triggered scan has fired a region and moved
\* its element to loading
C9_Witness ==
    /\ lastEvent = "scroll"
    /\ refreshTimer = "fired"
    /\ \E id \in RegionIds : calls[id] = 1
    /\ \E e \in Elements : preloads[e] = 1 /\ "hidpi-loading" \in classes[e]

\* C10: when the fetch of a background container fails, the loading element
\* gets the error marker, and from then on no event changes its classes or
\* starts a fetch for it.
C10_ErrorTerminal ==
    [][\A e \in Elements :
          TagName(e) # "IMG" =>
            /\ (lastEvent' = "imgerror" /\ loader'[e] < loader[e]) =>
                  /\ "hidpi-loading" \in classes[e]
                  /\ "hidpi-error" \in classes'[e]
                  /\ classes'[e] \cap {"hidpi-ready", "hidpi-pending", "hidpi-loaded"} = {}
            /\ "hidpi-error" \in classes[e] =>
                  /\ classes'[e] = classes[e]
                  /\ preloads'[e] = preloads[e]
                  /\ loader'[e] = loader[e]]_vars

\* a container's fetch has failed and scans and a scroll event have followed
C10_Witness ==
    /\ lastEvent = "scroll"
    /\ readyTimer = "cleared"
    /\ \E e \in Elements :
          /\ TagName(e) # "IMG"
          /\ fetched[e] = "error"
          /\ "hidpi-error" \in classes[e]
          /\ preloads[e] = 1

RegionsOf(ws, e) == {i \in 1..Len(ws) : ws[i].arg = e}

\* C11: an element that is not wider than the breakpoint when a scan runs is
\* left alone by that scan, and no other event touches an element that carries
\* the ready marker: it keeps exactly the ready marker, no region is registered
\* for it and no fetch is started for it.
C11_NarrowStaysReady ==
    [][\A e \in Elements :
          ("hidpi-ready" \in classes[e]
              /\ ~(lastEvent' \in ScanEvents /\ geom[e].width > HIDPI_BREAKPOINT)) =>
                /\ classes'[e] = {"hidpi-ready"}
                /\ preloads'[e] = 0
                /\ loader'[e] = 0
                /\ RegionsOf(waypoints', e) = {}]_vars

\* every kind of scan has run and a scroll event has followed, one element is
\* exactly at the breakpoint and still ready, the other has been started
C11_Witness ==
    /\ lastEvent = "scroll"
    /\ readyTimer = "cleared"
    /\ refreshTimer = "fired"
    /\ \E e \in Elements :
          /\ geom[e].width = HIDPI_BREAKPOINT
          /\ classes[e] = {"hidpi-ready"}
    /\ \E e \in Elements : preloads[e] = 1

\* C12: when a container's fetch succeeds, it gets an overlay, loses the loading
\* marker, gains the loaded and animating markers and loses the
\* high-resolution-URL attribute; when the crossfade completes, the animating
\* marker and the overlay are removed and the loaded marker stays.
C12_ContainerLoadedThenFaded ==
    [][\A e \in Elements :
          TagName(e) # "IMG" =>
            /\ (lastEvent' = "imgload" /\ loader'[e] < loader[e]) =>
                  /\ overlay'[e] = "fading"
                  /\ "hidpi-loading" \notin classes'[e]
                  /\ {"hidpi-loaded", "hidpi-animating"} \subseteq classes'[e]
                  /\ ~srcAttr'[e]
            /\ (lastEvent' = "fade" /\ overlay[e] = "fading" /\ overlay'[e] # "fading") =>
                  /\ overlay'[e] = "removed"
                  /\ "hidpi-animating" \notin classes'[e]
                  /\ "hidpi-loaded" \in classes'[e]
                  /\ ~srcAttr'[e]]_vars

\* a container whose crossfade has completed
C12_Witness ==
    \E e \in Elements :
        /\ TagName(e) # "IMG"
        /\ lastEvent = "fade"
        /\ fetched[e] = "load"
        /\ overlay[e] = "removed"
        /\ classes[e] = {"hidpi-loaded"}
        /\ ~srcAttr[e]

\* C17: an element carries the pending marker exactly when one region bound to
\* it is in the list; no element has more than one region, and an element that
\* is ready, loading, loaded or in error has none.
C17_PendingIffOneRegion ==
    \A e \in Elements :
        /\ Cardinality(RegionsOf(waypoints, e)) <= 1
        /\ Pending(e) <=> Cardinality(RegionsOf(waypoints, e)) = 1
        /\ classes[e] \cap {"hidpi-ready", "hidpi-loading", "hidpi-loaded", "hidpi-error"} # {}
              => RegionsOf(waypoints, e) = {}

\* after a scroll event that fired one element's region, the other element is
\* still pending with its one region
C17_Witness ==
    /\ lastEvent = "scroll"
    /\ \E e \in Elements : Pending(e) /\ Cardinality(RegionsOf(waypoints, e)) = 1
    /\ \E e \in Elements :
          /\ "hidpi-loading" \in classes[e]
          /\ \E id \in RegionIds : calls[id] = 1 /\ ~InList(id)

\* C18: a region keeps the top and bottom it was registered with as long as it
\* is in the list; a scroll event fires exactly the regions whose registered
\* edges are in view, wherever their elements are now; and a scan registers no
\* further region for an element that is pending.
C18_RegisteredEdgesAreFixed ==
    [][/\ \A i \in 1..Len(waypoints) : \A j \in 1..Len(waypoints') :
              waypoints[i].id = waypoints'[j].id => waypoints'[j] = waypoints[i]
       /\ lastEvent' = "scroll" =>
              \A i \in 1..Len(waypoints) :
                  LET w == waypoints[i]
                  IN  (calls'[w.id] > calls[w.id])
                          <=> inView(w.top, w.bottom, Omitted, scrollTop', winHeight')
       /\ lastEvent' \in ScanEvents =>
              \A e \in Elements :
                  Pending(e) => Cardinality(RegionsOf(waypoints', e)) = 1]_vars

\* after a scroll event an element that has moved into view is still pending,
\* because the edges registered for it are not in view
C18_Witness ==
    /\ lastEvent = "scroll"
    /\ \E i \in 1..Len(waypoints) :
          LET w == waypoints[i]
              g == geom[w.arg]
          IN  /\ Pending(w.arg)
              /\ <<g.top, g.top + g.height>> # <<w.top, w.bottom>>
              /\ inView(g.top, g.top + g.height, Omitted, scrollTop, winHeight)
              /\ ~inView(w.top, w.bottom, Omitted, scrollTop, winHeight)

IsHit(r) == r.hit

\* C13: within one update() pass the callbacks fire in reverse registration
\* order: of two regions fired in the same pass, the one added later (the larger
\* id) is fired first.
C13_ReverseRegistrationOrder ==
    \A p \in 1..Len(passes) :
        LET f == SelectSeq(passes[p], IsHit)
        IN  \A j \in 1..Len(f) : \A k \in 1..Len(f) : j < k => f[j].id > f[k].id

\* a pass has fired two regions
C13_Witness ==
    /\ lastEvent = "update"
    /\ Len(passes) = 1
    /\ Len(SelectSeq(passes[1], IsHit)) >= 2
    /\ \A id \in RegionIds : calls[id] >= 1

\* the regions an update() pass leaves in the list
Remaining(ws, viewTop, height) ==
    SelectSeq(ws, LAMBDA w : ~(w.oneShot /\ inView(w.top, w.bottom, Omitted, viewTop, height)))

\* C14: an update() pass examines every region that was in the list at its
\* start exactly once (from the last to the first), also when it removes
\* one-shot regions on the way; afterwards the list holds the regions that were
\* not in view and the in-view regions without oneShot, in their original
\* order and with unchanged fields.
C14_PassExaminesAllAndFilters ==
    [][Len(passes') >= 1 =>
          /\ Len(passes'[1]) = Len(waypoints)
          /\ \A k \in 1..Len(waypoints) :
                LET w == waypoints[Len(waypoints) + 1 - k]
                IN  /\ passes'[1][k].id = w.id
                    /\ passes'[1][k].hit
                         = inView(w.top, w.bottom, Omitted, scrollTop', winHeight')
          /\ waypoints' = Remaining(waypoints, scrollTop', winHeight')]_vars

\* a single pass over two regions has first removed the one-shot region added
\* last and then examined, and kept, the region before it
C14_Witness ==
    /\ lastEvent = "update"
    /\ Len(passes) = 1
    /\ Len(passes[1]) = 2
    /\ Len(waypoints) = 1
    /\ passes[1][1].hit
    /\ ~passes[1][2].hit
    /\ waypoints[1].id = passes[1][2].id

\* the edge test of C15 with the viewport shrunk by exactly tenths/10 of the
\* window height on each edge
C15_Within(x, tenths) ==
    /\ 10 * x >= 10 * scrollTop + winHeight * tenths
    /\ 10 * x <= 10 * (scrollTop + winHeight) - winHeight * tenths

\* C15: inView shrinks the viewport by exactly the margin fraction it is given,
\* also when that fraction is 0, and by a tenth only when the argument is
\* omitted.
C15_MarginAsGiven ==
    probe # <<>> =>
        LET tenths == IF probe.viewMargin = Omitted THEN 1 ELSE probe.viewMargin[1]
        IN  probe.result
                <=> (C15_Within(probe.top, tenths) \/ C15_Within(probe.bottom, tenths))

\* C16: the resize handler keeps exactly one timer pending, due DEBOUNCE_TIMEOUT
\* after the last resize event, so a burst of resize events ends in one scan,
\* run DEBOUNCE_TIMEOUT after the last of them, after which no timer is
\* pending; and the DOM-ready handler clears the poll, so no poll scan runs
\* after it.
C16_DebouncedScanAndPollStop ==
    [][/\ lastEvent' = "resize" => timeouts' = {DEBOUNCE_TIMEOUT}
       /\ timeouts' # {} => timeouts' = {DEBOUNCE_TIMEOUT - sinceResize'}
       /\ lastEvent' = "debounce" =>
              /\ sinceResize = DEBOUNCE_TIMEOUT
              /\ burst >= 1
              /\ timeouts' = {}
       /\ lastEvent' = "ready" => readyTimer' = "cleared"
       /\ readyTimer = "cleared" => (readyTimer' = "cleared" /\ lastEvent' # "poll")]_vars

\* the debounced scan has run after a burst of two or more resize events, and
\* the DOM-ready handler has run
C16_Witness ==
    /\ lastEvent = "debounce"
    /\ readyTimer = "cleared"
    /\ sinceResize = DEBOUNCE_TIMEOUT
    /\ timeouts = {}
    /\ burst = 2
    /\ refreshTimer = "fired"

====
